---- MODULE Spec2Model ----
(***************************************************************************)
(* Model of github.com/kraney/clock: the mock clock (UnsynchronizedMock),  *)
(* its timers and tickers, and the two checkpoint types                    *)
(* (OptionalCheckpoint, FailOnUnexpectedCheckpoint).                       *)
(*                                                                         *)
(* Threads are numbered 0..NumWorkers.  Thread 0 is the test's main        *)
(* goroutine (the one that waits on checkpoints and advances the clock);   *)
(* threads 1..NumWorkers are the goroutines it spawns.                     *)
(***************************************************************************)
EXTENDS Integers, Sequences, FiniteSets, TLC

\* ------------------------------------------------------------------ bounds
NumWorkers == 2
MaxCalls == 3
MaxDelta == 2
NumMakers == 1
MaxEntries == 2
MaxTime == 2
MaxDur == 1
MaxAdvances == 2
MaxHandleCalls == 2
MaxOpts == 2
MaxStarts == 1

Threads == 0..NumWorkers
Workers == 1..NumWorkers

VARIABLES
    kind,         \* what the threads share: a Checkpoint implementation, or the mock
    pc,           \* pc[t]: where goroutine t stands
    ret,          \* ret[t]: where t continues when its checkpoint call returns
    delta,        \* delta[t]: updateOutstanding's local  delta
    arg,          \* arg[t]: the delta the call in flight was made with
    os,           \* OptionalCheckpoint.Wait's local  os
    outstanding,  \* OptionalCheckpoint.outstanding: chan int, capacity 1
    gOpt,         \* history of the calls made on the OptionalCheckpoint
    expected,     \* FailOnUnexpectedCheckpoint.expected
    wg,           \* FailOnUnexpectedCheckpoint.wg: the WaitGroup's counter
    reports,      \* number of t.Errorf calls made on the checkpoint's testing.T
    gStrict,      \* history of the calls made on the FailOnUnexpectedCheckpoint
    now,          \* UnsynchronizedMock.now
    timers,       \* UnsynchronizedMock.timers: the slice of pending entries
    ents,         \* every Timer and Ticker made so far, by number
    mu,           \* UnsynchronizedMock.mu: the goroutine that holds it, or -1
    target,       \* Add's  t  /  Set's  t : the time the advance ends at
    cur,          \* runNextTimer's  t : the entry about to Tick, or 0
    tForFail,     \* UnsynchronizedMock.tForFail: whether it is set (not nil)
    call,         \* Add's  opts  and  d , and the place in the pass over opts
    gClock        \* history of the calls made on the mock

optVars == <<delta, arg, os, outstanding, gOpt>>
strictVars == <<expected, wg, reports, gStrict>>
callVars == <<tForFail, call>>
clockVars == <<now, timers, ents, mu, target, cur, tForFail, call, gClock>>
vars == <<kind, pc, ret, delta, arg, os, outstanding, gOpt, expected, wg, reports,
          gStrict, now, timers, ents, mu, target, cur, tForFail, call, gClock>>

\* ------------------------------------------------- OptionalCheckpoint

\* NewOptionalCheckPoint: make(chan int, 1); outstanding <- 0
NewOptionalCheckPoint == <<0>>

UpdPcs == {"upd_select", "upd_recv"}
WaitPcs == {"wait_first", "wait_loop", "wait_reset"}

InUpdate(t) == pc[t] \in UpdPcs
InWait(t) == pc[t] \in WaitPcs

\* What the OptionalCheckpoint holds: the mailbox, the deltas of the updates
\* in flight and the total of a Wait in flight.
OptHeld ==
    (IF outstanding = <<>> THEN 0 ELSE Head(outstanding))
    + (IF InWait(0) /\ pc[0] # "wait_first" THEN os ELSE 0)
    + delta[0]
    + (IF NumWorkers >= 1 THEN delta[1] ELSE 0)
    + (IF NumWorkers >= 2 THEN delta[2] ELSE 0)
    + (IF NumWorkers >= 3 THEN delta[3] ELSE 0)

\* The history of the checkpoint's calls is kept where the threads call the
\* checkpoint themselves; behind the mock, the mock's history takes its place.
Note(h) == IF kind = "optional" THEN h ELSE gOpt

\* A call of updateOutstanding(d) by t that continues at  r  when it returns.
CallUpdate(t, d, r) ==
    /\ pc' = [pc EXCEPT ![t] = "upd_select"]
    /\ ret' = [ret EXCEPT ![t] = r]
    /\ delta' = [delta EXCEPT ![t] = d]
    /\ arg' = [arg EXCEPT ![t] = IF d > 0 THEN d ELSE 0]
    /\ gOpt' = Note([gOpt EXCEPT
          !.calls = @ + 1,
          !.total = @ + d,
          !.net = @ + d,
          !.bal = IF d < 0 THEN @ - 1 ELSE @,
          !.need = IF d < 0 /\ (\E u \in Threads : InWait(u)) THEN @ - 1 ELSE @,
          !.overlap = @ \/ (\E u \in Threads : InWait(u))])
    /\ UNCHANGED <<os, outstanding>>

\* A call of Wait() by t that continues at  r  when it returns.
CallWait(t, r) ==
    /\ pc' = [pc EXCEPT ![t] = "wait_first"]
    /\ ret' = [ret EXCEPT ![t] = r]
    /\ gOpt' = Note([gOpt EXCEPT
          !.need = gOpt.bal,
          !.overlap = @ \/ (\E u \in Threads : InUpdate(u))])
    /\ UNCHANGED <<delta, arg, os, outstanding>>

\* The value updateOutstanding keeps after it took  v  out of the mailbox.
MergeLost(d, v) == v

Merge(d, v) == d + v

\* updateOutstanding: select { case s.outstanding <- delta: return; default: }
UpdSelect(t) ==
    /\ pc[t] = "upd_select"
    /\ IF outstanding = <<>>
       THEN /\ outstanding' = <<delta[t]>>
            /\ pc' = [pc EXCEPT ![t] = ret[t]]
            /\ delta' = [delta EXCEPT ![t] = 0]
            /\ arg' = [arg EXCEPT ![t] = 0]
            /\ gOpt' = Note([gOpt EXCEPT
                  !.bal = IF arg[t] > 0 THEN @ + arg[t] ELSE @])
       ELSE /\ pc' = [pc EXCEPT ![t] = "upd_recv"]
            /\ UNCHANGED <<outstanding, delta, arg, gOpt>>
    /\ UNCHANGED <<ret, os>>

\* updateOutstanding, default branch: os := <-s.outstanding; delta += os
UpdRecv(t) ==
    /\ pc[t] = "upd_recv"
    /\ outstanding # <<>>
    /\ delta' = [delta EXCEPT ![t] = Merge(delta[t], Head(outstanding))]
    /\ outstanding' = <<>>
    /\ pc' = [pc EXCEPT ![t] = "upd_select"]
    /\ UNCHANGED <<ret, arg, os, gOpt>>

\* Wait's loop test:  for os > 0
WaitGoesOnAlways(v) == FALSE

WaitGoesOn(v) == v > 0

\* Wait: os := <-s.outstanding
WaitFirst(t) ==
    /\ pc[t] = "wait_first"
    /\ outstanding # <<>>
    /\ os' = Head(outstanding)
    /\ outstanding' = <<>>
    /\ pc' = [pc EXCEPT ![t] =
          IF WaitGoesOn(Head(outstanding)) THEN "wait_loop" ELSE "wait_reset"]
    /\ UNCHANGED <<ret, delta, arg, gOpt>>

\* Wait: update := <-s.outstanding; os += update
WaitLoop(t) ==
    /\ pc[t] = "wait_loop"
    /\ outstanding # <<>>
    /\ os' = os + Head(outstanding)
    /\ outstanding' = <<>>
    /\ pc' = [pc EXCEPT ![t] =
          IF WaitGoesOn(os + Head(outstanding)) THEN "wait_loop" ELSE "wait_reset"]
    /\ UNCHANGED <<ret, delta, arg, gOpt>>

\* Wait: the value it stores when its loop is over
WaitStoresTotal(v) == v

WaitStores(v) == 0

\* Wait: s.outstanding <- 0
WaitReset(t) ==
    /\ pc[t] = "wait_reset"
    /\ outstanding = <<>>
    /\ outstanding' = <<WaitStores(os)>>
    /\ os' = 0
    /\ pc' = [pc EXCEPT ![t] = ret[t]]
    /\ gOpt' = Note([gOpt EXCEPT
          !.total = @ - os,
          !.net = 0,
          !.need = 0])
    /\ UNCHANGED <<ret, delta, arg>>

\* OptionalCheckpoint.Add(delta), delta >= 1
OptAdd(t, d) ==
    /\ kind = "optional"
    /\ pc[t] = "idle"
    /\ gOpt.calls + gStrict.calls < MaxCalls
    /\ CallUpdate(t, d, "idle")
    /\ UNCHANGED <<clockVars, kind, strictVars>>

\* OptionalCheckpoint.Done()
OptDone(t) ==
    /\ kind = "optional"
    /\ pc[t] = "idle"
    /\ gOpt.calls + gStrict.calls < MaxCalls
    /\ CallUpdate(t, -1, "idle")
    /\ UNCHANGED <<clockVars, kind, strictVars>>

\* OptionalCheckpoint.Wait(), called by the main goroutine
OptWait(t) ==
    /\ kind = "optional"
    /\ t = 0
    /\ pc[t] = "idle"
    /\ CallWait(t, "idle")
    /\ UNCHANGED <<clockVars, kind, strictVars>>

\* The steps of a call in flight on the OptionalCheckpoint.
OptSelect(t) == UpdSelect(t) /\ UNCHANGED <<clockVars, kind, strictVars>>
OptRecv(t) == UpdRecv(t) /\ UNCHANGED <<clockVars, kind, strictVars>>
OptWaitFirst(t) == WaitFirst(t) /\ UNCHANGED <<clockVars, kind, strictVars>>
OptWaitLoop(t) == WaitLoop(t) /\ UNCHANGED <<clockVars, kind, strictVars>>
OptWaitReset(t) == WaitReset(t) /\ UNCHANGED <<clockVars, kind, strictVars>>

\* ------------------------------------------- FailOnUnexpectedCheckpoint

\* FailOnUnexpectedCheckpoint.Add(delta), under t.mu
StrictAdd(t, d) ==
    /\ kind = "strict"
    /\ pc[t] = "idle"
    /\ gOpt.calls + gStrict.calls < MaxCalls
    /\ expected' = expected + d
    /\ wg' = wg + d
    /\ gStrict' = [gStrict EXCEPT
          !.calls = @ + 1,
          !.bal = @ + d,
          !.rAdds = @ + d,
          !.rOrdered = @ /\ gStrict.rDones = 0,
          !.raced = @ \/ pc[0] = "swait_reset"]
    /\ UNCHANGED <<clockVars, kind, pc, ret, reports, optVars>>

\* Done's test:  if t.expected <= 0
UnexpectedBelowZero(e) == e < 0

Unexpected(e) == e <= 0

\* What Done does to  expected  and the WaitGroup when it reports.
ReportedDoneCounts(e, w) == <<e - 1, w>>

ReportedDone(e, w) == <<e, w>>

\* What Done does to  expected  and the WaitGroup otherwise:
\* t.expected--; t.wg.Done()
AcceptedDoneKeepsGate(e, w) == <<e - 1, w>>

AcceptedDone(e, w) == <<e - 1, w - 1>>

\* FailOnUnexpectedCheckpoint.Done(), under t.mu
StrictDone(t) ==
    /\ kind = "strict"
    /\ pc[t] = "idle"
    /\ gOpt.calls + gStrict.calls < MaxCalls
    /\ IF Unexpected(expected)
       THEN /\ reports' = reports + 1
            /\ expected' = ReportedDone(expected, wg)[1]
            /\ wg' = ReportedDone(expected, wg)[2]
       ELSE /\ expected' = AcceptedDone(expected, wg)[1]
            /\ wg' = AcceptedDone(expected, wg)[2]
            /\ reports' = reports
    /\ gStrict' = [gStrict EXCEPT
          !.calls = @ + 1,
          !.bal = @ - 1,
          !.need = IF pc[0] = "swait_gate" THEN @ - 1 ELSE @,
          !.rDones = @ + 1,
          !.rReps = @ + (reports' - reports)]
    /\ UNCHANGED <<clockVars, kind, pc, ret, optVars>>

\* FailOnUnexpectedCheckpoint.Wait() is called (by the main goroutine)
StrictWait(t) ==
    /\ kind = "strict"
    /\ t = 0
    /\ pc[t] = "idle"
    /\ pc' = [pc EXCEPT ![t] = "swait_gate"]
    /\ gStrict' = [gStrict EXCEPT !.need = gStrict.bal, !.waited = TRUE]
    /\ UNCHANGED <<clockVars, kind, ret, expected, wg, reports, optVars>>

\* sync.WaitGroup.Wait returns when the counter is zero
WaitGroupOpenAlways(w) == TRUE

WaitGroupOpen(w) == w = 0

\* Wait: t.wg.Wait()
StrictWaitGate(t) ==
    /\ pc[t] = "swait_gate"
    /\ WaitGroupOpen(wg)
    /\ pc' = [pc EXCEPT ![t] = "swait_reset"]
    /\ UNCHANGED <<clockVars, kind, ret, expected, wg, reports, gStrict, optVars>>

\* Wait: t.expected = 0 (written without t.mu), then return
StrictWaitReset(t) ==
    /\ pc[t] = "swait_reset"
    /\ expected' = 0
    /\ pc' = [pc EXCEPT ![t] = "idle"]
    /\ gStrict' = [gStrict EXCEPT
          !.need = 0, !.rAdds = 0, !.rDones = 0, !.rReps = 0, !.rOrdered = TRUE,
          !.rounds = IF @ < 2 THEN @ + 1 ELSE @]
    /\ UNCHANGED <<clockVars, kind, ret, wg, reports, optVars>>

\* ------------------------------------------------ the checkpoints' runs

InitOpt ==
    /\ delta = [t \in Threads |-> 0]
    /\ arg = [t \in Threads |-> 0]
    /\ os = 0
    /\ outstanding = NewOptionalCheckPoint
    /\ gOpt = [calls |-> 0, total |-> 0, net |-> 0, bal |-> 0, need |-> 0,
               overlap |-> FALSE]

\* NewFailOnUnexpectedCheckpoint: expected and the WaitGroup start at zero
InitStrict ==
    /\ expected = 0
    /\ wg = 0
    /\ reports = 0
    /\ gStrict = [calls |-> 0, bal |-> 0, need |-> 0, rAdds |-> 0, rDones |-> 0,
                  rReps |-> 0, rOrdered |-> TRUE, waited |-> FALSE,
                  raced |-> FALSE, rounds |-> 0]

\* NewUnsynchronizedMock: now: time.Unix(0, 0)
Epoch == 0

\* No Add / Set with options is in progress.
NoCall == [opts |-> <<>>, i |-> 0, d |-> 0, e0 |-> 0]

\* No call has been made on the mock.  logging: whether the fires are
\* recorded, each as <<entry, time>>, in log.
NoHistory ==
    [regs |-> 0, expects |-> 0, advances |-> 0, onlyAdds |-> TRUE, sumD |-> 0,
     handles |-> 0, op |-> "none", ret |-> FALSE, after |-> FALSE, unexp |-> 0,
     logging |-> FALSE, log |-> <<>>]

\* The history after entry e was taken to Tick at time t.
Logged(e, t) ==
    IF gClock.logging THEN [gClock EXCEPT !.log = Append(@, <<e, t>>)] ELSE gClock

\* NewUnsynchronizedMock
InitClock ==
    /\ now = Epoch
    /\ timers = <<>>
    /\ ents = <<>>
    /\ mu = -1
    /\ target = Epoch
    /\ cur = 0
    /\ tForFail = FALSE
    /\ call = NoCall
    /\ gClock = NoHistory

InitCheckpoint ==
    /\ kind \in {"optional", "strict"}
    /\ pc = [t \in Threads |-> "idle"]
    /\ ret = [t \in Threads |-> "idle"]
    /\ InitOpt
    /\ InitStrict
    /\ InitClock

NextCheckpoint ==
    \/ \E t \in Threads, d \in 1..MaxDelta : OptAdd(t, d)
    \/ \E t \in Threads : OptDone(t)
    \/ \E t \in Threads : OptWait(t)
    \/ \E t \in Threads : OptSelect(t)
    \/ \E t \in Threads : OptRecv(t)
    \/ \E t \in Threads : OptWaitFirst(t)
    \/ \E t \in Threads : OptWaitLoop(t)
    \/ \E t \in Threads : OptWaitReset(t)
    \/ \E t \in Threads, d \in 1..MaxDelta : StrictAdd(t, d)
    \/ \E t \in Threads : StrictDone(t)
    \/ \E t \in Threads : StrictWait(t)
    \/ \E t \in Threads : StrictWaitGate(t)
    \/ \E t \in Threads : StrictWaitReset(t)

SpecCheckpoint == InitCheckpoint /\ [][NextCheckpoint]_vars

\* ---------------------------------------------------- UnsynchronizedMock

\* The goroutines that use the mock: the driver, 0, which also makes timers
\* as the tests' main goroutine does, and the goroutines that only make them.
Makers == 0..NumMakers

AdvPcs == {"run", "tick", "tick_send", "tick_fn", "fn_unlock", "tick_relock", "final"}

\* The driver is between computing an advance's end time and storing it.
Advancing == pc[0] \in AdvPcs

\* sort.Sort(m.timers): by Next(), entries of equal Next() keeping their order
RECURSIVE InsertByNext(_, _, _)
InsertByNext(es, sorted, id) ==
    IF sorted = <<>> THEN <<id>>
    ELSE IF es[id].next < es[Head(sorted)].next THEN <<id>> \o sorted
    ELSE <<Head(sorted)>> \o InsertByNext(es, Tail(sorted), id)

RECURSIVE SortTimers(_, _)
SortTimers(es, ts) ==
    IF ts = <<>> THEN <<>>
    ELSE InsertByNext(es, SortTimers(es, SubSeq(ts, 1, Len(ts) - 1)), ts[Len(ts)])

RECURSIVE Without(_, _)
Without(ts, id) ==
    IF ts = <<>> THEN <<>>
    ELSE IF Head(ts) = id THEN Tail(ts)
    ELSE <<Head(ts)>> \o Without(Tail(ts), id)

\* removeClockTimer: drop the entry from the slice, then sort.Sort(m.timers)
keepClockTimer(es, ts, id) == SortTimers(es, ts)

removeOtherTimers(es, ts, id) == SortTimers(es, SelectSeq(ts, LAMBDA x : x = id))

removeClockTimer(es, ts, id) == SortTimers(es, Without(ts, id))

\* Whether entry e is in m.timers
InRegistry(e) == \E i \in 1..Len(timers) : timers[i] = e

\* m.timers = append(m.timers, t)
RegisterNothing(ts, id) == ts

Register(ts, id) == Append(ts, id)

\* A clock that moves backwards to  n  ends every ticker's plain history.
MarkBack(es, n) ==
    IF n < now THEN [i \in 1..Len(es) |-> [es[i] EXCEPT !.plain = FALSE]] ELSE es

\* &Timer{...} / &Ticker{...}: next: m.now.Add(d), a channel of capacity 1
NewEntry(k, d) ==
    [kind |-> k, d |-> d, next |-> now + d, c |-> <<>>, stopped |-> FALSE,
     born |-> now, delivered |-> 0,
     plain |-> (k = "ticker" /\ ~Advancing), due |-> FALSE,
     halt |-> "no", at |-> -1, fn |-> FALSE, af |-> -1, ran |-> 0,
     byFn |-> FALSE]

\* NewTimer / NewTicker up to  sp.Done(): under m.mu, make the entry, append
\* it to m.timers and call Done() on the OnStart checkpoint.
NewEntryCall(t, k, d) ==
    /\ pc[t] = "idle"
    /\ mu = -1
    /\ Len(ents) < MaxEntries
    /\ mu' = t
    /\ ents' = Append(ents, NewEntry(k, d))
    /\ timers' = Register(timers, Len(ents) + 1)
    /\ gClock' = [gClock EXCEPT
          !.regs = @ + (Len(timers') - Len(timers)),
          !.unexp = IF tForFail /\ OptHeld <= 0 THEN @ + 1 ELSE @]
    /\ CallUpdate(t, -1, "unlock")
    /\ UNCHANGED <<kind, strictVars, callVars, now, target, cur>>

\* NewTimer(d)
NewTimer(t, d) == NewEntryCall(t, "timer", d)

\* NewTicker(d)
NewTicker(t, d) == NewEntryCall(t, "ticker", d)

\* NewTimer / NewTicker: the deferred m.mu.Unlock()
Unlock(t) ==
    /\ pc[t] = "unlock"
    /\ mu' = -1
    /\ pc' = [pc EXCEPT ![t] = "idle"]
    /\ UNCHANGED <<kind, ret, optVars, strictVars, callVars, now, timers, ents, target, cur, gClock>>

\* ExpectStarts(delta): read syncPoints[OnStart] under m.mu, then sp.Add(delta)
ExpectStarts(n) ==
    /\ pc[0] = "idle"
    /\ mu = -1
    /\ gClock.expects + n <= MaxEntries
    /\ gClock' = [gClock EXCEPT !.expects = @ + n]
    /\ CallUpdate(0, n, "idle")
    /\ UNCHANGED <<kind, strictVars, callVars, now, timers, ents, mu, target, cur>>

\* WaitForStart: read syncPoints[OnStart] under m.mu, then sp.Wait()
WaitForStart ==
    /\ pc[0] = "idle"
    /\ mu = -1
    /\ CallWait(0, "idle")
    /\ UNCHANGED <<kind, strictVars, clockVars>>

\* An advance to time  t  begins: the entries that exist and are due by  t
\* have now seen an advance that reaches them.  waitAfter: the call was given
\* a post-advance wait option, whose PriorEventsOption and
\* UpcomingEventsOption, the two passes the call makes, are empty.
BeginAdvance(t, isAdd, d, waitAfter) ==
    /\ gClock.advances < MaxAdvances
    /\ target' = t
    /\ pc' = [pc EXCEPT ![0] = "run"]
    /\ ents' = [i \in 1..Len(ents) |-> [ents[i] EXCEPT
                !.due = @ \/ ((ents[i].kind = "timer" \/ ents[i].at >= 0)
                               /\ InRegistry(i) /\ ents[i].next <= t)]]
    /\ gClock' = [gClock EXCEPT
          !.advances = @ + 1,
          !.after = waitAfter,
          !.onlyAdds = @ /\ isAdd,
          !.sumD = IF gClock.onlyAdds /\ isAdd THEN @ + d ELSE 0]
    /\ UNCHANGED <<kind, ret, optVars, strictVars, tForFail, now, timers, mu, cur>>

\* Add(d): t := m.now.Add(d)
MockAdd(d) ==
    /\ pc[0] = "idle"
    /\ now + d <= MaxTime
    /\ BeginAdvance(now + d, TRUE, d, FALSE)
    /\ UNCHANGED call

\* Set(t)
MockSet(t) ==
    /\ pc[0] = "idle"
    /\ BeginAdvance(t, FALSE, 0, FALSE)
    /\ UNCHANGED call

\* Add(d, WaitForStartsAfter): the two option passes do nothing for this
\* option, and Add makes no pass after the advance
MockAddWaitForStartsAfter(d) ==
    /\ pc[0] = "idle"
    /\ now + d <= MaxTime
    /\ BeginAdvance(now + d, TRUE, d, TRUE)
    /\ UNCHANGED call

\* runNextTimer: t := m.timers[0]
LastTimer(ts) == ts[Len(ts)]

FirstTimer(ts) == Head(ts)

\* runNextTimer: m.now = t.Next()
NowAtTarget(nx, max) == max

NowAtFire(nx, max) == nx

\* runNextTimer: if t.Next().After(max)
NextIsAfterOrAt(nx, max) == nx >= max

NextIsAfter(nx, max) == nx > max

\* runNextTimer(max), under m.mu: sort, take m.timers[0], and unless it is
\* due after max, move now to its Next()
runNextTimer ==
    /\ pc[0] = "run"
    /\ mu = -1
    /\ LET sorted == SortTimers(ents, timers) IN
       /\ timers' = sorted
       /\ IF sorted = <<>> \/ NextIsAfter(ents[FirstTimer(sorted)].next, target)
          THEN /\ pc' = [pc EXCEPT ![0] = "final"]
               /\ UNCHANGED <<now, cur, ents>>
          ELSE /\ now' = NowAtFire(ents[FirstTimer(sorted)].next, target)
               /\ cur' = FirstTimer(sorted)
               /\ ents' = MarkBack(ents, NowAtFire(ents[FirstTimer(sorted)].next, target))
               /\ pc' = [pc EXCEPT ![0] = "tick"]
    /\ UNCHANGED <<kind, ret, optVars, strictVars, callVars, mu, target, gClock>>

\* internalTimer.Tick: who holds m.mu while t.fn() runs: t.mock.mu.Unlock()
\* comes before the call
MutexKeptDuringFn(t) == t

MutexDuringFn(t) == -1

\* internalTimer.Tick: t.mock.mu.Lock(); if t.fn != nil { t.mock.mu.Unlock() ...
TimerTickLock ==
    /\ pc[0] = "tick"
    /\ ents[cur].kind = "timer"
    /\ mu = -1
    /\ IF ents[cur].fn
       THEN /\ mu' = MutexDuringFn(0)
            /\ pc' = [pc EXCEPT ![0] = "tick_fn"]
       ELSE /\ mu' = 0
            /\ pc' = [pc EXCEPT ![0] = "tick_send"]
    /\ UNCHANGED <<kind, ret, optVars, strictVars, callVars, now, timers, ents, target, cur, gClock>>

\* internalTimer.Tick: t.fn(), outside the lock
TimerTickFn ==
    /\ pc[0] = "tick_fn"
    /\ ents' = [ents EXCEPT ![cur].ran = @ + 1]
    /\ pc' = [pc EXCEPT ![0] = "tick_relock"]
    /\ UNCHANGED <<kind, ret, optVars, strictVars, callVars, now, timers, mu, target, cur, gClock>>

\* internalTimer.Tick after t.fn(): Lock; removeClockTimer; t.stopped = true;
\* Unlock
TimerTickRelock ==
    /\ pc[0] = "tick_relock"
    /\ mu = -1
    /\ LET es == [ents EXCEPT ![cur].stopped = TRUE, ![cur].at = -1] IN
       /\ ents' = es
       /\ timers' = removeClockTimer(es, timers, cur)
    /\ cur' = 0
    /\ pc' = [pc EXCEPT ![0] = "run"]
    /\ UNCHANGED <<kind, ret, optVars, strictVars, callVars, now, mu, target, gClock>>

\* internalTimer.Tick: t.c <- now; removeClockTimer; t.stopped = true; Unlock
TimerTickSend ==
    /\ pc[0] = "tick_send"
    /\ ents[cur].c = <<>>
    /\ LET es == [ents EXCEPT ![cur].c = <<now>>,
                              ![cur].stopped = TRUE,
                              ![cur].at = -1,
                              ![cur].delivered = @ + 1] IN
       /\ ents' = es
       /\ timers' = removeClockTimer(es, timers, cur)
    /\ mu' = -1
    /\ cur' = 0
    /\ pc' = [pc EXCEPT ![0] = "run"]
    /\ gClock' = Logged(cur, now)
    /\ UNCHANGED <<kind, ret, optVars, strictVars, callVars, now, target>>

\* internalTicker.Tick: t.next = now.Add(t.d)
TickerNextDrifts(n, d) == n + d + 1

TickerNext(n, d) == n + d

\* internalTicker.Tick: select { case t.c <- now: default: }
TickerSendQueues(c, v) == Append(c, v)

TickerSend(c, v) == IF c = <<>> THEN <<v>> ELSE c

\* internalTicker.Tick: select { case t.c <- now: default: }; set t.next
TickerTick ==
    /\ pc[0] = "tick"
    /\ ents[cur].kind = "ticker"
    /\ ents' = [ents EXCEPT
          ![cur].c = TickerSend(@, now),
          ![cur].delivered = IF ents[cur].c = <<>> THEN @ + 1 ELSE @,
          ![cur].plain = @ /\ ents[cur].c = <<>>,
          ![cur].at = -1,
          ![cur].next = TickerNext(now, ents[cur].d)]
    /\ cur' = 0
    /\ pc' = [pc EXCEPT ![0] = "run"]
    /\ gClock' = Logged(cur, now)
    /\ UNCHANGED <<kind, ret, optVars, strictVars, callVars, now, timers, mu, target>>

\* Add / Set: the time they end with
EndTimeOfLastFire(n, t) == n

EndTime(n, t) == t

\* Add / Set: m.mu.Lock(); m.now = t; m.mu.Unlock()
EndAdvance ==
    /\ pc[0] = "final"
    /\ mu = -1
    /\ now' = EndTime(now, target)
    /\ ents' = MarkBack(ents, EndTime(now, target))
    /\ pc' = [pc EXCEPT ![0] = "idle"]
    /\ UNCHANGED <<kind, ret, optVars, strictVars, callVars, timers, mu, target, cur, gClock>>

\* The goroutine reading an entry's channel:  <-ch
Receive(e) ==
    /\ e \in 1..Len(ents)
    /\ ents[e].c # <<>>
    /\ ents' = [ents EXCEPT ![e].c = <<>>]
    /\ UNCHANGED <<kind, pc, ret, optVars, strictVars, callVars, now, timers, mu, target, cur, gClock>>

Init ==
    /\ kind = "mock"
    /\ pc = [t \in Threads |-> "idle"]
    /\ ret = [t \in Threads |-> "idle"]
    /\ InitOpt
    /\ InitStrict
    /\ InitClock

Next ==
    \/ \E t \in Makers, d \in 0..MaxDur : NewTimer(t, d)
    \/ \E t \in Makers, d \in 1..MaxDur : NewTicker(t, d)
    \/ \E t \in Makers : Unlock(t)
    \/ \E n \in 1..MaxEntries : ExpectStarts(n)
    \/ WaitForStart
    \/ \E d \in 0..MaxTime : MockAdd(d)
    \/ \E t \in 0..MaxTime : MockSet(t)
    \/ runNextTimer
    \/ TimerTickLock
    \/ TimerTickSend
    \/ TickerTick
    \/ EndAdvance
    \/ \E e \in 1..MaxEntries : Receive(e)
    \/ \E t \in Threads : OptSelect(t)
    \/ \E t \in Threads : OptRecv(t)
    \/ \E t \in Threads : OptWaitFirst(t)
    \/ \E t \in Threads : OptWaitLoop(t)
    \/ \E t \in Threads : OptWaitReset(t)

Spec == Init /\ [][Next]_vars

\* ------------------------------------------- Timer / Ticker: Stop, Reset

\* Stop: whether the entry was active
ActiveAlways(e) == TRUE

Active(e) == ~ents[e].stopped

\* Stop(), under m.mu: remove the entry from the registry if it is there and
\* mark it stopped; the result is whether it was active.
Stop(t, e) ==
    /\ pc[t] = "idle" \/ (t = 0 /\ pc[0] = "tick_fn")
    /\ mu = -1
    /\ e \in 1..Len(ents)
    /\ gClock.handles < MaxHandleCalls
    /\ LET es == [ents EXCEPT
                    ![e].stopped = TRUE,
                    ![e].plain = @ /\ ~Active(e),
                    ![e].at = IF Active(e) THEN -1 ELSE @,
                    ![e].halt = IF ~Active(e) THEN @
                                ELSE IF Advancing THEN "raced" ELSE "quiet"] IN
       /\ ents' = es
       /\ timers' = removeClockTimer(es, timers, e)
    /\ gClock' = [gClock EXCEPT !.handles = @ + 1, !.op = "stop", !.ret = Active(e)]
    /\ UNCHANGED <<kind, pc, ret, optVars, strictVars, callVars, now, mu, target, cur>>

\* Reset: nextFire = Now() + d
ResetNextFromOld(e, d) == ents[e].next + d

ResetNext(e, d) == now + d

\* Reset(d), under m.mu: set nextFire, put the entry back into the registry
\* if it is not there; the result is whether it was active.
Reset(t, e, d) ==
    /\ pc[t] = "idle"
    /\ mu = -1
    /\ e \in 1..Len(ents)
    /\ gClock.handles < MaxHandleCalls
    /\ ents' = [ents EXCEPT
          ![e].next = ResetNext(e, d),
          ![e].stopped = FALSE,
          ![e].plain = FALSE,
          ![e].due = FALSE,
          ![e].halt = "no",
          ![e].at = IF Advancing THEN -1 ELSE now + d]
    /\ timers' = IF InRegistry(e) THEN timers ELSE Register(timers, e)
    /\ gClock' = [gClock EXCEPT !.handles = @ + 1, !.op = "reset", !.ret = Active(e)]
    /\ UNCHANGED <<kind, pc, ret, optVars, strictVars, callVars, now, mu, target, cur>>

NextHandles ==
    \/ \E t \in Makers, d \in 0..MaxDur : NewTimer(t, d)
    \/ \E t \in Makers, d \in 1..MaxDur : NewTicker(t, d)
    \/ \E t \in Makers : Unlock(t)
    \/ \E t \in Makers, e \in 1..MaxEntries : Stop(t, e)
    \/ \E t \in Makers, e \in 1..MaxEntries, d \in 0..MaxDur : Reset(t, e, d)
    \/ \E d \in 0..MaxTime : MockAdd(d)
    \/ runNextTimer
    \/ TimerTickLock
    \/ TimerTickSend
    \/ TickerTick
    \/ EndAdvance
    \/ \E e \in 1..MaxEntries : Receive(e)
    \/ \E t \in Makers : OptSelect(t)
    \/ \E t \in Makers : OptRecv(t)

SpecHandles == Init /\ [][NextHandles]_vars

\* ------------------------------------------------------------- AfterFunc

\* AfterFunc(d, f): t := m.NewTimer(d), up to its sp.Done()
AfterFunc(t, d) ==
    /\ pc[t] = "idle"
    /\ mu = -1
    /\ Len(ents) < MaxEntries
    /\ mu' = t
    /\ ents' = Append(ents, [NewEntry("timer", d) EXCEPT !.af = t])
    /\ timers' = Register(timers, Len(ents) + 1)
    /\ gClock' = [gClock EXCEPT !.regs = @ + 1]
    /\ CallUpdate(t, -1, "af_unlock")
    /\ UNCHANGED <<kind, strictVars, callVars, now, target, cur>>

\* AfterFunc: NewTimer's deferred m.mu.Unlock(), and its return
AfterFuncUnlock(t) ==
    /\ pc[t] = "af_unlock"
    /\ mu' = -1
    /\ pc' = [pc EXCEPT ![t] = "af_set"]
    /\ UNCHANGED <<kind, ret, optVars, strictVars, callVars, now, timers, ents, target, cur, gClock>>

\* AfterFunc: t.C = nil; t.fn = f, with no lock held
AfterFuncSet(t) ==
    /\ pc[t] = "af_set"
    /\ ents' = [e \in 1..Len(ents) |->
                  IF ents[e].af = t THEN [ents[e] EXCEPT !.fn = TRUE] ELSE ents[e]]
    /\ pc' = [pc EXCEPT ![t] = "idle"]
    /\ UNCHANGED <<kind, ret, optVars, strictVars, callVars, now, timers, mu, target, cur, gClock>>

NextFunc ==
    \/ \E t \in Makers, d \in 0..MaxDur : AfterFunc(t, d)
    \/ \E t \in Makers : AfterFuncUnlock(t)
    \/ \E t \in Makers : AfterFuncSet(t)
    \/ \E d \in 0..MaxTime : MockAdd(d)
    \/ runNextTimer
    \/ TimerTickLock
    \/ TimerTickSend
    \/ TimerTickFn
    \/ TimerTickRelock
    \/ EndAdvance
    \/ \E t \in Makers : OptSelect(t)
    \/ \E t \in Makers : OptRecv(t)

SpecFunc == Init /\ [][NextFunc]_vars

\* ------------------------------------------- what a callback may call

\* f calls NewTimer(d) on the clock that is firing it, up to its sp.Done()
FnNewTimer(d) ==
    /\ pc[0] = "tick_fn"
    /\ mu = -1
    /\ Len(ents) < MaxEntries
    /\ mu' = 0
    /\ ents' = Append(ents, [NewEntry("timer", d) EXCEPT
                               !.byFn = TRUE, !.due = now + d <= target])
    /\ timers' = Register(timers, Len(ents) + 1)
    /\ gClock' = [gClock EXCEPT !.regs = @ + 1]
    /\ CallUpdate(0, -1, "fn_unlock")
    /\ UNCHANGED <<kind, strictVars, callVars, now, target, cur>>

\* f's NewTimer: the deferred m.mu.Unlock(); f goes on
FnUnlock ==
    /\ pc[0] = "fn_unlock"
    /\ mu' = -1
    /\ pc' = [pc EXCEPT ![0] = "tick_fn"]
    /\ UNCHANGED <<kind, ret, optVars, strictVars, callVars, now, timers, ents, target,
                   cur, gClock>>

\* f calls Stop() on a timer of the clock that is firing it
FnStop(e) == pc[0] = "tick_fn" /\ Stop(0, e)

NextCallback ==
    \/ \E t \in Makers, d \in 0..MaxDur : AfterFunc(t, d)
    \/ \E t \in Makers : AfterFuncUnlock(t)
    \/ \E t \in Makers : AfterFuncSet(t)
    \/ \E d \in 0..MaxTime : MockAdd(d)
    \/ runNextTimer
    \/ TimerTickLock
    \/ TimerTickSend
    \/ TimerTickFn
    \/ \E d \in 0..MaxDur : FnNewTimer(d)
    \/ FnUnlock
    \/ \E e \in 1..MaxEntries : FnStop(e)
    \/ TimerTickRelock
    \/ EndAdvance
    \/ \E t \in Makers : OptSelect(t)
    \/ \E t \in Makers : OptRecv(t)

SpecCallback == Init /\ [][NextCallback]_vars

\* ------------------------------------------- one Add, or the same in parts
\* The test's goroutine registers timers and tickers on a fresh mock and then
\* advances the clock in one or more Add calls; the fires are recorded.

InitRecorded ==
    /\ kind = "mock"
    /\ pc = [t \in Threads |-> "idle"]
    /\ ret = [t \in Threads |-> "idle"]
    /\ InitOpt
    /\ InitStrict
    /\ now = Epoch
    /\ timers = <<>>
    /\ ents = <<>>
    /\ mu = -1
    /\ target = Epoch
    /\ cur = 0
    /\ tForFail = FALSE
    /\ call = NoCall
    /\ gClock = [NoHistory EXCEPT !.logging = TRUE]

NextRecorded ==
    \/ \E d \in 0..MaxDur : gClock.advances = 0 /\ NewTimer(0, d)
    \/ \E d \in 1..MaxDur : gClock.advances = 0 /\ NewTicker(0, d)
    \/ Unlock(0)
    \/ OptSelect(0)
    \/ OptRecv(0)
    \/ \E d \in 0..MaxTime : MockAdd(d)
    \/ runNextTimer
    \/ TimerTickLock
    \/ TimerTickSend
    \/ TickerTick
    \/ EndAdvance

SpecRecorded == InitRecorded /\ [][NextRecorded]_vars

\* ------------------------------------------- post-advance wait options

NextOptions ==
    \/ \E t \in Makers, d \in 0..MaxDur : NewTimer(t, d)
    \/ \E t \in Makers : Unlock(t)
    \/ \E n \in 1..MaxEntries : ExpectStarts(n)
    \/ \E d \in 0..MaxTime : MockAddWaitForStartsAfter(d)
    \/ runNextTimer
    \/ TimerTickLock
    \/ TimerTickSend
    \/ EndAdvance
    \/ \E t \in Makers : OptSelect(t)
    \/ \E t \in Makers : OptRecv(t)

SpecOptions == Init /\ [][NextOptions]_vars

\* ------------------------------------------------- whether Add / Set return
\* NewTicker takes any duration: the mock makes no test of d.

\* The steps of Add / Set once the target is computed.
AdvanceStep ==
    \/ runNextTimer
    \/ TimerTickLock
    \/ TimerTickSend
    \/ TickerTick
    \/ EndAdvance

\* The steps of a NewTimer / NewTicker call in flight.
MakerStep(t) ==
    \/ Unlock(t)
    \/ OptSelect(t)
    \/ OptRecv(t)

NextReturns ==
    \/ \E t \in Makers, d \in 0..MaxDur : NewTimer(t, d)
    \/ \E t \in Makers, d \in 0..MaxDur : NewTicker(t, d)
    \/ \E d \in 0..MaxTime : MockAdd(d)
    \/ \E t \in 0..MaxTime : MockSet(t)
    \/ AdvanceStep
    \/ \E t \in Makers : MakerStep(t)

\* The driver and every goroutine in a call keep running; nobody reads the
\* channels, which a ticker's non-blocking send does not need.
SpecReturns ==
    /\ Init
    /\ [][NextReturns]_vars
    /\ WF_vars(AdvanceStep)
    /\ \A t \in Makers : WF_vars(MakerStep(t))

\* ------------------------------------------------- Add(d, opts...)

\* The options: ExpectUpcomingStarts(n), WaitForStartsBefore,
\* FailOnUnexpectedUpcomingEvent(t), IgnoreUnexpectedUpcomingEvent
ExpectUpcomingStarts(n) == [o |-> "ExpectUpcomingStarts", starts |-> n]
WaitForStartsBefore == [o |-> "WaitForStartsBefore", starts |-> 0]
FailOnUnexpectedUpcomingEvent == [o |-> "FailOnUnexpectedUpcomingEvent", starts |-> 0]
IgnoreUnexpectedUpcomingEvent == [o |-> "IgnoreUnexpectedUpcomingEvent", starts |-> 0]

Options ==
    {ExpectUpcomingStarts(n) : n \in 1..MaxStarts}
    \cup {WaitForStartsBefore, FailOnUnexpectedUpcomingEvent,
          IgnoreUnexpectedUpcomingEvent}

\* The argument lists  opts ...Option  of up to MaxOpts options
OptLists == UNION {[1..n -> Options] : n \in 1..MaxOpts}

RECURSIVE StartsOf(_)
StartsOf(ol) == IF ol = <<>> THEN 0 ELSE Head(ol).starts + StartsOf(Tail(ol))

\* for _, opt := range opts : whether the range is over
RangeOverAfterFirst(i, ol) == i > 1

RangeOver(i, ol) == i > Len(ol)

\* Add(d, opts...) is called
MockAddOpts(d, ol) ==
    /\ pc[0] = "idle"
    /\ gClock.advances < MaxAdvances
    /\ now + d <= MaxTime
    /\ gClock.expects + StartsOf(ol) <= MaxEntries
    /\ call' = [opts |-> ol, i |-> 1, d |-> d, e0 |-> gClock.expects]
    /\ pc' = [pc EXCEPT ![0] = "prior"]
    /\ UNCHANGED <<kind, ret, optVars, strictVars, now, timers, ents, mu, target,
                   cur, tForFail, gClock>>

\* Add, first loop: opt.PriorEventsOption(m) for the next option;
\* WaitForStartsBefore calls mock.WaitForStart(), the others nothing
PriorEventsOption ==
    /\ pc[0] = "prior"
    /\ ~RangeOver(call.i, call.opts)
    /\ call' = [call EXCEPT !.i = @ + 1]
    /\ IF call.opts[call.i] = WaitForStartsBefore
       THEN /\ mu = -1
            /\ CallWait(0, "prior")
       ELSE UNCHANGED <<pc, ret, optVars>>
    /\ UNCHANGED <<kind, strictVars, now, timers, ents, mu, target, cur, tForFail,
                   gClock>>

\* Add: the first loop is over, the second begins
PriorPassEnds ==
    /\ pc[0] = "prior"
    /\ RangeOver(call.i, call.opts)
    /\ call' = [call EXCEPT !.i = 1]
    /\ pc' = [pc EXCEPT ![0] = "upcoming"]
    /\ UNCHANGED <<kind, ret, optVars, strictVars, now, timers, ents, mu, target,
                   cur, tForFail, gClock>>

\* Add, second loop: opt.UpcomingEventsOption(m) for the next option:
\* ExpectUpcomingStarts calls mock.ExpectStarts(starts), the two policy
\* options assign mock.tForFail, WaitForStartsBefore does nothing
UpcomingEventsOption ==
    /\ pc[0] = "upcoming"
    /\ ~RangeOver(call.i, call.opts)
    /\ call' = [call EXCEPT !.i = @ + 1]
    /\ LET opt == call.opts[call.i] IN
       /\ IF opt.o = "ExpectUpcomingStarts"
          THEN /\ mu = -1
               /\ gClock' = [gClock EXCEPT !.expects = @ + opt.starts]
               /\ CallUpdate(0, opt.starts, "upcoming")
          ELSE UNCHANGED <<pc, ret, optVars, gClock>>
       /\ tForFail' = IF opt = FailOnUnexpectedUpcomingEvent THEN TRUE
                      ELSE IF opt = IgnoreUnexpectedUpcomingEvent THEN FALSE
                      ELSE tForFail
    /\ UNCHANGED <<kind, strictVars, now, timers, ents, mu, target, cur>>

\* Add: the second loop is over;  t := m.now.Add(d)
UpcomingPassEnds ==
    /\ pc[0] = "upcoming"
    /\ RangeOver(call.i, call.opts)
    /\ BeginAdvance(now + call.d, TRUE, call.d, FALSE)
    /\ call' = NoCall

NextPasses ==
    \/ \E t \in Makers \ {0}, d \in 0..MaxDur : NewTimer(t, d)
    \/ \E t \in Makers : Unlock(t)
    \/ \E d \in 0..MaxTime, ol \in OptLists : MockAddOpts(d, ol)
    \/ PriorEventsOption
    \/ PriorPassEnds
    \/ UpcomingEventsOption
    \/ UpcomingPassEnds
    \/ runNextTimer
    \/ TimerTickLock
    \/ TimerTickSend
    \/ EndAdvance
    \/ \E t \in Makers : OptSelect(t)
    \/ \E t \in Makers : OptRecv(t)
    \/ OptWaitFirst(0)
    \/ OptWaitLoop(0)
    \/ OptWaitReset(0)

SpecPasses == Init /\ [][NextPasses]_vars

\* --------------------------- the blocking Wait of checkpoint_test.go
\* TestOptionalCheckPoint's last scenario: the main goroutine calls Add(n) and
\* then Wait(); the goroutines it spawned call Done() n times in all.

LiveAdd(d) ==
    /\ kind = "optional"
    /\ pc[0] = "idle"
    /\ gOpt.calls = 0
    /\ CallUpdate(0, d, "idle")
    /\ UNCHANGED <<clockVars, kind, strictVars>>

LiveWait ==
    /\ kind = "optional"
    /\ pc[0] = "idle"
    /\ gOpt.calls >= 1
    /\ CallWait(0, "returned")
    /\ UNCHANGED <<clockVars, kind, strictVars>>

LiveDone(t) ==
    /\ kind = "optional"
    /\ t \in Workers
    /\ pc[t] = "idle"
    /\ InWait(0)
    /\ gOpt.bal > 0
    /\ CallUpdate(t, -1, "idle")
    /\ UNCHANGED <<clockVars, kind, strictVars>>

InitLive ==
    /\ kind = "optional"
    /\ pc = [t \in Threads |-> "idle"]
    /\ ret = [t \in Threads |-> "idle"]
    /\ InitOpt
    /\ InitStrict
    /\ InitClock

LiveThread(t) ==
    \/ t = 0 /\ \E d \in 1..MaxCalls : LiveAdd(d)
    \/ t = 0 /\ LiveWait
    \/ LiveDone(t)
    \/ OptSelect(t)
    \/ OptRecv(t)
    \/ OptWaitFirst(t)
    \/ OptWaitLoop(t)
    \/ OptWaitReset(t)

NextLive == \E t \in Threads : LiveThread(t)

\* Each goroutine that can take a step eventually takes one.
SpecLive ==
    InitLive /\ [][NextLive]_vars /\ \A t \in Threads : WF_vars(LiveThread(t))

\* ------------------------------------------------------------ the claims

Max0(n) == IF n > 0 THEN n ELSE 0

\* Some goroutine other than t holds the mailbox's value and is about to
\* put it back.
HolderOtherThan(t) ==
    \E u \in Threads \ {t} : pc[u] \in {"upd_select", "wait_reset"}

\* C4: lenient checkpoint, concurrent updaters.  When Add/Done calls of
\* several goroutines interleave with each other (and with no Wait), every
\* one of them completes, the mailbox then holds exactly their total, and a
\* Wait() started after them with a total <= 0 (also on a fresh checkpoint)
\* goes through each of its steps without blocking.
C4_WaitAfterUpdatesReturns ==
    (kind = "optional" /\ ~gOpt.overlap) =>
        /\ \A t \in Threads :
              (pc[t] = "upd_recv" /\ outstanding = <<>>) => HolderOtherThan(t)
        /\ (\A t \in Threads : pc[t] = "idle") => outstanding = <<gOpt.net>>
        /\ (InWait(0) /\ gOpt.net <= 0) =>
              \/ pc[0] = "wait_first" /\ outstanding # <<>>
              \/ pc[0] = "wait_reset" /\ outstanding = <<>>

C4_Witness ==
    /\ kind = "optional"
    /\ ~gOpt.overlap
    /\ pc[0] = "wait_reset"
    /\ gOpt.calls >= 3
    /\ gOpt.net = 0

\* C5: lenient checkpoint: a call of Add(delta) or Done() never blocks (when
\* it finds the mailbox empty, a goroutine in flight is about to refill it)
\* and its delta is never lost (mailbox + updates in flight + the running
\* Wait's total always add up to every delta passed in, less what Wait
\* discarded), under every interleaving with other calls and with Wait().
C5_UpdateNeverBlocksNorLost ==
    kind = "optional" =>
        /\ \A t \in Threads :
              (pc[t] = "upd_recv" /\ outstanding = <<>>) => HolderOtherThan(t)
        /\ OptHeld = gOpt.total

\* C6: lenient checkpoint liveness: after Add(n), n >= 1, with n Done()
\* calls issued by other goroutines while the main goroutine is in Wait(),
\* Wait() eventually returns, whatever the interleaving, when every goroutine
\* that can take a step eventually takes one.
C6_WaitEventuallyReturns == <>(pc[0] = "returned")

\* C7: Wait() really blocks, lenient and strict: when Wait() is about to
\* return, at least as many Done() calls have been made as the Add calls
\* completed before that Wait() was called had added.
C7_WaitReturnsOnlyAfterDones ==
    /\ (kind = "optional" /\ pc[0] = "wait_reset") => gOpt.need <= 0
    /\ (kind = "strict" /\ pc[0] = "swait_reset") => gStrict.need <= 0

\* C8: strict checkpoint: a Done() made while expected <= 0 adds exactly one
\* failure report and a Done() made while expected > 0 adds none; Add calls
\* totalling N followed by M Done calls, with no Wait, leave exactly
\* max(0, M - N) reports.
C8_OneReportPerUnexpectedDone ==
    /\ [][(kind = "strict" /\ gStrict'.rDones = gStrict.rDones + 1) =>
            reports' = reports + (IF expected <= 0 THEN 1 ELSE 0)]_vars
    /\ []((kind = "strict" /\ ~gStrict.waited /\ gStrict.rOrdered) =>
            reports = Max0(gStrict.rDones - gStrict.rAdds))

C8_Witness ==
    /\ kind = "strict"
    /\ ~gStrict.waited
    /\ gStrict.rOrdered
    /\ gStrict.rAdds = 1
    /\ gStrict.rDones = 2
    /\ reports = 1

\* C9: strict checkpoint rounds: in every round (from one return of Wait to
\* the next) in which Add calls totalling N >= 1 were followed by exactly N
\* Done calls, no failure was reported, expected is 0 and the gate is open,
\* so Wait returns; also in a round that follows a reported unexpected Done.
C9_RoundsStayUsable ==
    (/\ kind = "strict"
     /\ ~gStrict.raced
     /\ gStrict.rOrdered
     /\ gStrict.rAdds >= 1
     /\ gStrict.rDones = gStrict.rAdds) =>
        /\ gStrict.rReps = 0
        /\ expected = 0
        /\ WaitGroupOpen(wg)

C9_Witness ==
    /\ kind = "strict"
    /\ gStrict.rounds >= 1
    /\ reports >= 1
    /\ ~gStrict.raced
    /\ gStrict.rOrdered
    /\ gStrict.rAdds >= 1
    /\ gStrict.rDones = gStrict.rAdds
    /\ pc[0] = "swait_reset"

\* ------------------------------------------------------- the mock's claims

Entries == 1..Len(ents)

Fired == {e \in Entries : ents[e].stopped}

\* C1: once Add(d) or Set(t) has returned, Now() is exactly the requested
\* target, whether or not a timer or ticker fired during the call; so after
\* Add(d1), Add(d2), ... on a fresh mock Now() is the epoch plus the sum of
\* the di.
C1_NowIsTargetAfterAdvance ==
    (kind = "mock" /\ ~Advancing /\ gClock.advances >= 1) =>
        /\ now = target
        /\ gClock.onlyAdds => now = Epoch + gClock.sumD

C1_Witness ==
    /\ kind = "mock"
    /\ ~Advancing
    /\ gClock.advances = 2
    /\ gClock.onlyAdds
    /\ gClock.sumD = 2
    /\ \E e \in Entries : ents[e].delivered >= 1 /\ ents[e].born + ents[e].d < now

\* C2: a one-shot timer made at time T for duration d delivers exactly once:
\* a delivery is its first, happens during an Add/Set whose target is at
\* least T+d and at a time no earlier than T+d; and when the first Add/Set
\* begun after its creation with a target of at least T+d has returned, it
\* has delivered.
C2_TimerDeliversOnceWhenDue ==
    /\ [][\A e \in Entries :
            (ents[e].kind = "timer" /\ ents'[e].delivered > ents[e].delivered) =>
                /\ ents[e].delivered = 0
                /\ Advancing
                /\ target >= ents[e].born + ents[e].d
                /\ now >= ents[e].born + ents[e].d]_vars
    /\ [](\A e \in Entries :
            (ents[e].kind = "timer" /\ ents[e].due /\ ~Advancing) =>
                ents[e].delivered = 1)

C2_Witness ==
    /\ kind = "mock"
    /\ ~Advancing
    /\ gClock.advances = 2
    /\ \E e \in Entries :
          /\ ents[e].kind = "timer"
          /\ ents[e].d = 1
          /\ ents[e].due
          /\ ents[e].delivered = 1
          /\ ents[e].c = <<>>
          /\ now > ents[e].born + ents[e].d

\* C3: a ticker of interval d > 0 whose channel is drained after every tick
\* has delivered exactly k ticks when the time advanced since its creation
\* is exactly k*d.
C3_TickerDeliversKTicks ==
    (kind = "mock" /\ ~Advancing) =>
        \A e \in Entries :
            (/\ ents[e].kind = "ticker"
             /\ ents[e].plain
             /\ (now - ents[e].born) % ents[e].d = 0) =>
                ents[e].delivered = (now - ents[e].born) \div ents[e].d

C3_Witness ==
    /\ kind = "mock"
    /\ ~Advancing
    /\ \E e \in Entries :
          /\ ents[e].kind = "ticker"
          /\ ents[e].plain
          /\ now - ents[e].born = 2 * ents[e].d
          /\ ents[e].delivered = 2

\* C10: after ExpectStarts(n), WaitForStart returns only when at least n
\* NewTimer/NewTicker registrations have completed; a registration is in
\* the registry when its OnStart Done() is signalled, so that the entries
\* expected are there for (or were already fired by) the driver.
C10_WaitForStartSeesRegistrations ==
    kind = "mock" =>
        /\ \A t \in Makers :
              (InUpdate(t) /\ ret[t] = "unlock") => InRegistry(Len(ents))
        /\ pc[0] = "wait_reset" =>
              /\ gClock.regs >= gClock.expects
              /\ Len(timers) + Cardinality(Fired) >= gClock.expects

C10_Witness ==
    /\ kind = "mock"
    /\ pc[0] = "wait_reset"
    /\ os = 0
    /\ gClock.expects = 2
    /\ gClock.regs = 2
    /\ \E t \in Makers \ {0} : pc[t] = "unlock"

\* C14: entries fire in non-decreasing order of their fire times: when an
\* entry fires, at the time it was scheduled for, no pending entry is
\* scheduled earlier, and no entry's schedule ever moves to an earlier time;
\* so an entry that fires later, in this advance or a later one, fires at
\* a time no earlier.
C14_FiresInTimeOrder ==
    /\ [](kind = "mock" =>
            (pc[0] \in {"tick", "tick_send"} =>
                /\ now = ents[cur].next
                /\ \A e \in Entries : InRegistry(e) => ents[e].next >= now))
    /\ [][\A e \in Entries : ents'[e].next >= ents[e].next]_vars

C14_Witness ==
    /\ kind = "mock"
    /\ pc[0] = "tick"
    /\ Len(timers) = 2
    /\ \E a, b \in Entries :
          /\ a # b
          /\ ents[a].kind = "ticker"
          /\ ents[b].kind = "timer"
          /\ ents[a].delivered >= 1
          /\ cur = b
          /\ ents[a].next > ents[b].next
          /\ a < b

\* C15: entries that are pending with the same fire time fire in the order
\* in which they were registered, also after removals, re-sorts and the
\* rescheduling of tickers: the entry that fires is never one registered
\* after a pending entry of the same fire time.
C15_TiesFireInRegistrationOrder ==
    (kind = "mock" /\ pc[0] = "tick") =>
        \A e \in Entries :
            (InRegistry(e) /\ ents[e].next = ents[cur].next) => cur <= e

\* C16: the clock's time never decreases: every value assigned to now is
\* at least the value it replaces.
C16_NowNeverDecreases == [][kind = "mock" => now' >= now]_vars

\* C17: a ticker that fires while its channel still holds a tick drops the
\* new tick: the channel never holds more than one value, the tick already
\* there stays, and the driver's send is never one that waits for a reader.
C17_TickerOverflowDrops ==
    /\ [](kind = "mock" =>
            /\ \A e \in Entries : Len(ents[e].c) <= 1
            /\ (pc[0] = "tick" /\ ents[cur].kind = "ticker") => ENABLED TickerTick)
    /\ [][(pc[0] = "tick" /\ pc'[0] = "run" /\ ents[cur].c # <<>>) =>
            /\ ents'[cur].c = ents[cur].c
            /\ ents'[cur].delivered = ents[cur].delivered]_vars

C17_Witness ==
    /\ kind = "mock"
    /\ ~Advancing
    /\ \E e \in Entries :
          /\ ents[e].kind = "ticker"
          /\ ents[e].c = <<ents[e].born + ents[e].d>>
          /\ ents[e].delivered = 1
          /\ now = ents[e].born + 2 * ents[e].d
          /\ ents[e].next > now

\* ------------------------------------------------- Stop and Reset's claims

\* C11: a Stop() that completes while the entry is pending and no advance is
\* running makes the entry never fire again: it is never taken to Tick and
\* delivers nothing more. A Stop() of an entry that is not active (a timer
\* that fired, an entry stopped before) returns false and changes nothing;
\* a Stop() that returns true has stopped an entry that was active.
C11_StopPreventsFire ==
    /\ [][\A e \in Entries :
            ents[e].halt = "quiet" =>
                /\ ents'[e].delivered = ents[e].delivered
                /\ ~(pc[0] = "run" /\ pc'[0] = "tick" /\ cur' = e)]_vars
    /\ [][(gClock'.handles = gClock.handles + 1 /\ gClock'.op = "stop") =>
            IF gClock'.ret
            THEN \E e \in Entries :
                    ~ents[e].stopped /\ ents'[e].stopped /\ timers' # timers
            ELSE timers' = timers /\ ents' = ents]_vars

C11_Witness ==
    /\ kind = "mock"
    /\ ~Advancing
    /\ gClock.handles = 2
    /\ gClock.op = "stop"
    /\ ~gClock.ret
    /\ \E e \in Entries :
          /\ ents[e].halt = "quiet"
          /\ ents[e].delivered = 0
          /\ ents[e].next <= now
          /\ ents[e].born < now

\* C12: when Stop() on a one-shot timer returns true the timer does not
\* fire: it delivers nothing after that Stop, however the Stop interleaves
\* with the Add that is firing the timer.
C12_StopWinsOrFireWins ==
    [][\A e \in Entries :
          (ents[e].kind = "timer" /\ ents[e].halt # "no") =>
              ents'[e].delivered = ents[e].delivered]_vars

\* C13: a Reset(d) made at time R, while no advance is running, discards the
\* entry's schedule: the entry is pending for R+d, it is taken to Tick only
\* with the clock at R+d, and once an advance begun after the Reset with a
\* target of at least R+d has returned, it has fired.
C13_ResetReschedules ==
    /\ [](\A e \in Entries :
            ents[e].at >= 0 =>
                /\ InRegistry(e)
                /\ ~ents[e].stopped
                /\ ents[e].next = ents[e].at
                /\ ~(ents[e].due /\ ~Advancing))
    /\ [][\A e \in Entries :
            (pc[0] = "run" /\ pc'[0] = "tick" /\ cur' = e /\ ents[e].at >= 0) =>
                now' = ents[e].at]_vars

C13_Witness ==
    /\ kind = "mock"
    /\ pc[0] = "tick"
    /\ ents[cur].at = now
    /\ ents[cur].delivered = 0
    /\ ents[cur].born + ents[cur].d < now
    /\ gClock.advances = 2

\* C18: the driver never holds the clock's mutex across a send that can
\* block: a one-shot timer's fire finds room in the channel or drops the
\* value, also the fire that follows a Reset of a timer whose earlier value
\* was not read.
C18_TimerSendNeverBlocks ==
    kind = "mock" => ~(pc[0] = "tick_send" /\ mu = 0 /\ ents[cur].c # <<>>)

\* C19: AfterFunc(d, f) made at time T has f called exactly once, during the
\* first advance whose target is at least T+d and not before, and its fire
\* is never delivered to a channel in place of the call, however the steps
\* of AfterFunc interleave with the driver's Add.
C19_AfterFuncCallsOnce ==
    kind = "mock" =>
        \A e \in Entries :
            ents[e].af >= 0 =>
                /\ ents[e].delivered = 0
                /\ ents[e].ran <= 1
                /\ (ents[e].ran = 1 => now >= ents[e].born + ents[e].d)
                /\ (ents[e].due /\ ~Advancing) => ents[e].ran = 1

\* C20: an Add given a post-advance wait option (WaitForStartsAfter) does
\* not return until the OnStart checkpoint has drained: at the step in which
\* such an Add returns, the checkpoint's count is at most 0.
C20_WaitAfterDrainsBeforeReturn ==
    [][(kind = "mock" /\ gClock.after /\ pc[0] = "final" /\ pc'[0] = "idle")
          => OptHeld <= 0]_vars

\* ------------------------------------------- the checkpoints' later claims

\* C27: the lenient Wait() resets the count: a Wait() that returns while no
\* other call is in flight leaves exactly 0 in the mailbox, also when the
\* count it found was negative; so, with calls that do not overlap a Wait,
\* the mailbox holds the total of the deltas passed in since the last Wait
\* returned: surplus Done() calls made before a Wait do not pay for an Add
\* made after it, and a surplus Done() not yet followed by a Wait is taken
\* off the next Add.
C27_WaitResetsCount ==
    /\ [][(/\ kind = "optional"
           /\ pc[0] = "wait_reset"
           /\ pc'[0] # "wait_reset"
           /\ \A t \in Workers : pc[t] = "idle") =>
              /\ outstanding' = <<0>>
              /\ gOpt'.net = 0]_vars
    /\ []((/\ kind = "optional"
           /\ ~gOpt.overlap
           /\ \A t \in Threads : pc[t] = "idle") =>
              /\ outstanding # <<>>
              /\ Head(outstanding) = gOpt.net)

\* Done(), Wait(), Add(1) have been made in turn: the Done was discarded by
\* the Wait and the count is 1.
C27_Witness ==
    /\ kind = "optional"
    /\ ~gOpt.overlap
    /\ \A t \in Threads : pc[t] = "idle"
    /\ gOpt.calls = 2
    /\ gOpt.bal = 0
    /\ gOpt.net = 1
    /\ outstanding = <<1>>

C29_ExpectedMatchesGate ==
    kind = "strict" => expected = wg

\* ------------------------------------------------ the mock's later claims

\* C24: at each fire the clock's time is the fired entry's scheduled
\* nextFire, not the advance's target: the clock's time changes only when an
\* entry is taken to fire, to that entry's nextFire, or at the end of an
\* advance, to the target; so a reader of Now() between a fire and the next
\* change sees that nextFire; and the value delivered to the channel is the
\* entry's nextFire, which is the clock's time then.
C24_NowIsFireTime ==
    /\ [][(kind = "mock" /\ now' # now) =>
            \/ pc[0] = "run" /\ pc'[0] = "tick" /\ now' = ents[cur'].next
            \/ pc[0] = "final" /\ pc'[0] = "idle" /\ now' = target]_vars
    /\ [][\A e \in Entries :
            (kind = "mock" /\ ents'[e].delivered > ents[e].delivered) =>
                /\ ents'[e].c = <<ents[e].next>>
                /\ now' = ents[e].next]_vars

\* A reader between the fire of a ticker at time 1 and the end of an Add
\* that goes on to time 2.
C24_Witness ==
    /\ kind = "mock"
    /\ pc[0] = "run"
    /\ now > Epoch
    /\ now < target
    /\ \E e \in Entries : ents[e].c = <<now>> /\ ents[e].delivered = 1

\* C22: Add(d) and Set(t) made without wait options always return: whatever
\* timers and tickers are pending, the advance fires finitely many of them
\* and then completes.
C22_AdvanceReturns == (kind = "mock" /\ Advancing) ~> ~Advancing

\* C21: once FailOnUnexpectedUpcomingEvent(reporter) has been applied, every
\* NewTimer/NewTicker registration made while no ExpectStarts count is
\* outstanding reports a failure to the reporter, until
\* IgnoreUnexpectedUpcomingEvent is applied, and no other registration does:
\* whenever no registration is in flight, the reporter has as many failures
\* as there were such registrations.
C21_UnexpectedStartsReported ==
    (/\ kind = "mock"
     /\ \A t \in Makers : pc[t] # "unlock" /\ ~(InUpdate(t) /\ ret[t] = "unlock")) =>
        reports = gClock.unexp

\* C23: the option passes are ordered: every option's prior hook runs, in
\* list order, before any option's upcoming hook; all upcoming hooks have
\* run when the target is computed; no entry fires before that.  So, in
\* either argument order, the WaitForStart of WaitForStartsBefore runs while
\* the expectations of the same call's ExpectUpcomingStarts are not yet
\* registered.
C23_PassesAreOrdered ==
    /\ [](kind = "mock" =>
            ((pc[0] = "prior" \/ (InWait(0) /\ ret[0] = "prior")) =>
                gClock.expects = call.e0))
    /\ [][(pc[0] = "prior" /\ pc'[0] = "upcoming") =>
            call.i = Len(call.opts) + 1]_vars
    /\ [][(pc[0] = "upcoming" /\ pc'[0] = "run") =>
            /\ call.i = Len(call.opts) + 1
            /\ gClock.expects = call.e0 + StartsOf(call.opts)
            /\ target' = now + call.d]_vars
    /\ [][(call.opts # <<>> /\ call'.opts = call.opts /\ call'.i # call.i) =>
            \/ call'.i = call.i + 1
            \/ call'.i = 1 /\ pc[0] = "prior" /\ pc'[0] = "upcoming"]_vars
    /\ [][call.opts # <<>> =>
            \A e \in Entries : ents'[e].delivered = ents[e].delivered]_vars

\* The second Add(d, ExpectUpcomingStarts(1), WaitForStartsBefore): its wait
\* is held up by the first call's expectation and not by its own.
C23_Witness ==
    /\ kind = "mock"
    /\ pc[0] = "wait_loop"
    /\ ret[0] = "prior"
    /\ os = 1
    /\ call.opts = <<ExpectUpcomingStarts(1), WaitForStartsBefore>>
    /\ call.e0 = 1
    /\ gClock.expects = 1

\* C25: a callback fired by AfterFunc runs with the clock's mutex released:
\* while it runs the driver does not hold the mutex, so the callback's own
\* NewTimer, Stop or Now() can take it; when the callback has returned the
\* firing timer is removed from the registry and marked stopped; and a timer
\* the callback registered with a fire time no later than the target (and
\* did not stop) has fired when that same Add returns.
C25_CallbackRunsUnlocked ==
    /\ [](kind = "mock" => (pc[0] = "tick_fn" => mu # 0))
    /\ [](kind = "mock" =>
            ((pc[0] = "fn_unlock" /\ mu = 0) => ENABLED FnUnlock))
    /\ [][(pc[0] = "tick_relock" /\ pc'[0] = "run") =>
            /\ ents'[cur].stopped
            /\ \A i \in 1..Len(timers') : timers'[i] # cur]_vars
    /\ [](\A e \in Entries :
            (ents[e].byFn /\ ents[e].due /\ ents[e].halt = "no" /\ pc[0] = "idle") =>
                ents[e].delivered = 1)

\* An Add has returned in which a callback ran, registered a timer due later
\* in that Add, and both fired.
C25_Witness ==
    /\ kind = "mock"
    /\ pc[0] = "idle"
    /\ gClock.advances = 1
    /\ \E f, e \in Entries :
          /\ ents[f].ran = 1
          /\ ents[f].stopped
          /\ ~InRegistry(f)
          /\ ents[e].byFn
          /\ ents[e].d = 1
          /\ ents[e].delivered = 1
          /\ ents[e].c = <<now>>

\* The entries as they were registered, at the epoch, and their registry.
Registered ==
    [e \in Entries |-> [kind |-> ents[e].kind, d |-> ents[e].d,
                        next |-> ents[e].born + ents[e].d]]

RECURSIVE Upto(_)
Upto(n) == IF n = 0 THEN <<>> ELSE Append(Upto(n - 1), n)

\* The fires of one Add that takes the registry  ts  of entries  es  to
\* time  max : the earliest entry, if it is not after max, fires at its time;
\* a timer is then removed, a ticker rescheduled one interval later.
RECURSIVE SingleAdd(_, _, _)
SingleAdd(es, ts, max) ==
    LET sorted == SortTimers(es, ts) IN
    IF sorted = <<>> THEN <<>>
    ELSE LET e == Head(sorted) IN
         IF es[e].next > max THEN <<>>
         ELSE <<<<e, es[e].next>>>> \o
              (IF es[e].kind = "timer"
               THEN SingleAdd(es, Without(sorted, e), max)
               ELSE SingleAdd([es EXCEPT ![e].next = @ + es[e].d], sorted, max))

\* The fires of entry e, in order.
LogOf(e) == SelectSeq(gClock.log, LAMBDA x : x[1] = e)

\* C26: zero drift and independence of the partition: a ticker made at time
\* T with interval i > 0 and never Reset has fired at exactly T+i, T+2i, ...
\* up to the clock's time, however the advance was split into Add calls; and
\* the sequence of (entry, fire time) pairs of Add calls that took the clock
\* to a time is the sequence a single Add to that time produces, for every
\* registry of pending timers and tickers.
C26_PartitionIndependent ==
    (kind = "mock" /\ gClock.logging /\ pc[0] = "idle" /\ gClock.advances >= 1) =>
        /\ gClock.log = SingleAdd(Registered, Upto(Len(ents)), now)
        /\ \A e \in Entries :
              ents[e].kind = "ticker" =>
                  LogOf(e) = [k \in 1..((now - ents[e].born) \div ents[e].d) |->
                                 <<e, ents[e].born + k * ents[e].d>>]

\* Two Add calls have taken the clock to time 2, past time 1 where a ticker
\* and a timer were both due, and past the ticker's second fire.
C26_Witness ==
    /\ kind = "mock"
    /\ gClock.logging
    /\ pc[0] = "idle"
    /\ gClock.advances = 2
    /\ gClock.sumD = 2
    /\ now = 2
    /\ target = 2
    /\ \E a, b \in Entries :
          /\ ents[a].kind = "ticker"
          /\ ents[b].kind = "timer"
          /\ gClock.log = <<<<a, 1>>, <<b, 1>>, <<a, 2>>>>

====
